---- MODULE Spec2Model ----
(***************************************************************************)
(* Model of ReportGenerator._fetch_SAFe, the issue-synchronization loop of *)
(* CreateSIT.py and of its refactored twin jiraSIT.py.                     *)
(*                                                                         *)
(* The two scripts are run side by side on the same query result, the same *)
(* fields file and the same suffix flag, each against its own copy of the  *)
(* Jira repository; the two repositories answer alike.  Every variable     *)
(* that belongs to one script is a function over Variants.                 *)
(*                                                                         *)
(* Strings that the code inspects character by character (summaries) are   *)
(* tuples of one-character strings; issue keys are <<project, number>>.    *)
(***************************************************************************)
EXTENDS Integers, Sequences, FiniteSets, TLC

\* ------------------------------------------------------------------ bounds
\* Longest query result that is explored.
MaxParents == 3

\* ----------------------------------------------------------------- strings
S_Empty == <<>>
S_Prefix == <<"S","I","T",":"," ">>
S_Marker == <<"S","T",":"," ","S","I","T"," ","-">>
S_FeatureA == S_Marker \o <<" ","F","e","a","t","u","r","e"," ","A"," ","(","l","e","g","a","c","y",")">>
S_Wip == S_Marker \o <<"[","w","i","p","]">>
S_Mixed == <<"B"," ","(","x","]"," ","[","y">>
S_Other == <<"x">>
S_ChildA == S_Prefix \o <<" ","F","e","a","t","u","r","e"," ","A"," ">>

OpenChars == {"(", "["}
CloseChars == {")", "]"}
NewLine == "\n"

Min(S) == CHOOSE x \in S : \A y \in S : x <= y

\* re.sub("[\(\[].*?[\)\]]", "", s): scanning from the left, an opening
\* bracket followed later by a closing bracket, with no newline in between,
\* is removed together with everything up to the FIRST closing bracket.
RECURSIVE StripBrackets(_)
StripBrackets(s) ==
    IF s = <<>> THEN <<>>
    ELSE LET closers == {j \in 2..Len(s) : s[j] \in CloseChars}
             j == Min(closers)
         IN IF /\ s[1] \in OpenChars
               /\ closers # {}
               /\ \A k \in 2..(j - 1) : s[k] # NewLine
            THEN StripBrackets(SubSeq(s, j + 1, Len(s)))
            ELSE <<s[1]>> \o StripBrackets(Tail(s))

\* re.sub("ST: SIT -", "", s): every non-overlapping occurrence of the
\* marker, leftmost first, is removed.
RECURSIVE StripMarker(_)
StripMarker(s) ==
    IF s = <<>> THEN <<>>
    ELSE IF Len(s) >= Len(S_Marker) /\ SubSeq(s, 1, Len(S_Marker)) = S_Marker
         THEN StripMarker(SubSeq(s, Len(S_Marker) + 1, Len(s)))
         ELSE <<s[1]>> \o StripMarker(Tail(s))

\* (faulty form: the marker is left in place)
SuffixStr_KeepMarker(issue_summary) == StripBrackets(issue_summary)

\* suffix_str of one parent summary: the two substitutions in code order.
SuffixStr(issue_summary) == StripMarker(StripBrackets(issue_summary))

\* ------------------------------------------------------------------ inputs
Variants == {"CreateSIT", "jiraSIT"}

\* An issuelinks entry is a dict that may hold "inwardIssue" and/or
\* "outwardIssue"; the value kept here is that issue's fields.summary.
NoLinks == <<>>
Link_In(s) == [inwardIssue |-> s]
Link_Out(s) == [outwardIssue |-> s]
Link_Both(s, t) == [inwardIssue |-> s, outwardIssue |-> t]
Link_Bare == [type |-> "10502"]

Issue(n, s, l) == [key |-> <<"FEAT", n>>, summary |-> s, issuelinks |-> l]

\* The issues a query can return.  Keys are unique, as in Jira.
IssuePool ==
    { Issue(1, S_FeatureA, NoLinks),
      Issue(2, S_FeatureA, <<Link_Out(S_Other), Link_In(S_ChildA)>>),
      Issue(3, S_Wip, <<Link_Bare, Link_Both(S_Other, S_Prefix)>>),
      Issue(4, S_Mixed, <<Link_Out(S_Prefix)>>) }

\* Query results: sequences of distinct issues, in any order.
QueryResults ==
    { q \in UNION { [1..n -> IssuePool] : n \in 0..MaxParents } :
        \A a, b \in DOMAIN q : a # b => q[a] # q[b] }

IssueTypes == {"Epic", "Story", "Task"}
TemplateSummaries == {S_Prefix, S_Empty}

\* The fields JSON file: summary, issuetype.name and, for an Epic, its
\* Epic Name (customfield_11502).
FieldsFile(s, t) ==
    IF t = "Epic"
    THEN [summary |-> s, issuetype |-> t, customfield_11502 |-> s]
    ELSE [summary |-> s, issuetype |-> t]

\* ------------------------------------------------------------------- state
VARIABLES
    snapshot,       \* what jira.jql returns, per variant (equal in run 1)
    fields_file,    \* the parsed --fields file
    suffix,         \* the suffix flag
    run,            \* 1: first run of the scripts, 2: the re-run
    pc,             \* per variant: "start", "loop", "done", "returned", "exited"
    values,         \* per variant: local values of _fetch_SAFe
    idx,            \* per variant: position of the loop in values
    prefix,         \* per variant: local prefix of _fetch_SAFe
    create_fields,  \* per variant: the dict that is mutated in place
    issues,         \* per variant: self.issues
    calls,          \* per variant: calls received by the repository, in order
    console,        \* per variant: what was printed/logged, one entry per parent
    created,        \* per variant: issues the repository has created so far
    first_run       \* per variant: console of run 1, kept for the re-run

vars == <<snapshot, fields_file, suffix, run, pc, values, idx, prefix,
          create_fields, issues, calls, console, created, first_run>>

Init ==
    /\ \E q \in QueryResults : snapshot = [v \in Variants |-> q]
    /\ \E s \in TemplateSummaries, t \in IssueTypes : fields_file = FieldsFile(s, t)
    /\ suffix \in BOOLEAN
    /\ run = 1
    /\ pc = [v \in Variants |-> "start"]
    /\ values = [v \in Variants |-> <<>>]
    /\ idx = [v \in Variants |-> 0]
    /\ prefix = [v \in Variants |-> <<>>]
    /\ create_fields = [v \in Variants |-> fields_file]
    /\ issues = [v \in Variants |-> <<>>]
    /\ calls = [v \in Variants |-> <<>>]
    /\ console = [v \in Variants |-> <<>>]
    /\ created = [v \in Variants |-> 0]
    /\ first_run = [v \in Variants |-> <<>>]

\* --------------------------------------------------------- field template
\* dict assignment d[k] = x
SetKey(d, k, x) == (k :> x) @@ d

\* (faulty form: the current summary is extended instead of the captured prefix)
Resolve_Compounding(cf, pre, value) ==
    IF suffix
    THEN LET s == cf.summary \o SuffixStr(value.summary)
             cf1 == SetKey(cf, "summary", s)
         IN IF cf.issuetype = "Epic" THEN SetKey(cf1, "customfield_11502", s) ELSE cf1
    ELSE cf

\* The suffix branch at the top of the loop body: with the flag set, summary
\* (and Epic Name for an Epic) become prefix + suffix_str; without it the
\* dict is left as it is.
Resolve(cf, pre, value) ==
    IF suffix
    THEN LET s == pre \o SuffixStr(value.summary)
             cf1 == SetKey(cf, "summary", s)
         IN IF cf.issuetype = "Epic" THEN SetKey(cf1, "customfield_11502", s) ELSE cf1
    ELSE cf

\* ------------------------------------------------------ duplicate detector
\* (faulty form: outwardIssue is never looked at)
RECURSIVE issue_exists_InwardOnly(_, _)
issue_exists_InwardOnly(linked_issues, summary) ==
    IF linked_issues = <<>> THEN FALSE
    ELSE LET link == Head(linked_issues) IN
         IF "inwardIssue" \in DOMAIN link
         THEN link.inwardIssue = summary \/ issue_exists_InwardOnly(Tail(linked_issues), summary)
         ELSE issue_exists_InwardOnly(Tail(linked_issues), summary)

\* CreateSIT.py: inline scan of value['fields']['issuelinks']; an entry with
\* neither inwardIssue nor outwardIssue is passed over (continue).
RECURSIVE issue_exists(_, _)
issue_exists(linked_issues, summary) ==
    IF linked_issues = <<>> THEN FALSE
    ELSE LET link == Head(linked_issues) IN
         IF "inwardIssue" \in DOMAIN link
         THEN link.inwardIssue = summary \/ issue_exists(Tail(linked_issues), summary)
         ELSE IF "outwardIssue" \in DOMAIN link
         THEN link.outwardIssue = summary \/ issue_exists(Tail(linked_issues), summary)
         ELSE issue_exists(Tail(linked_issues), summary)

\* (faulty form: inwardIssue is never looked at)
RECURSIVE issue_already_exists_OutwardOnly(_, _)
issue_already_exists_OutwardOnly(linked_issues, summary) ==
    IF linked_issues = <<>> THEN FALSE
    ELSE LET link == Head(linked_issues)
             linked_summary ==
                 IF "outwardIssue" \in DOMAIN link THEN link.outwardIssue ELSE S_Empty
         IN linked_summary = summary
              \/ issue_already_exists_OutwardOnly(Tail(linked_issues), summary)

\* jiraSIT.py: _issue_already_exists; linked_summary starts as "" and is
\* compared with the candidate whatever the entry holds.
RECURSIVE issue_already_exists(_, _)
issue_already_exists(linked_issues, summary) ==
    IF linked_issues = <<>> THEN FALSE
    ELSE LET link == Head(linked_issues)
             linked_summary ==
                 IF "inwardIssue" \in DOMAIN link THEN link.inwardIssue
                 ELSE IF "outwardIssue" \in DOMAIN link THEN link.outwardIssue
                 ELSE S_Empty
         IN linked_summary = summary \/ issue_already_exists(Tail(linked_issues), summary)

AlreadyLinked(v, value, summary) ==
    IF v = "CreateSIT"
    THEN issue_exists(value.issuelinks, summary)
    ELSE issue_already_exists(value.issuelinks, summary)

\* -------------------------------------------------------------- repository
\* Key of the n-th issue the repository creates.
CreatedKey(n) == <<"SIT", n>>

\* jira.issue_create(fields=create_fields), issued while handling parent.
CreateCall(cf, parent_key) ==
    [op |-> "issue_create", fields |-> cf, parent |-> parent_key]

\* (faulty form: the two parties are swapped)
EpicLinkCall_Swapped(parent_key, created_key) ==
    [op |-> "create_issue_link", type |-> "10502",
     inwardIssue |-> parent_key, outwardIssue |-> created_key,
     parent |-> parent_key]

\* jira.create_issue_link(link_payload)
EpicLinkCall(parent_key, created_key) ==
    [op |-> "create_issue_link", type |-> "10502",
     inwardIssue |-> created_key, outwardIssue |-> parent_key,
     parent |-> parent_key]

\* (faulty form: the parent is updated, with the created key as value)
StoryUpdateCall_Swapped(parent_key, created_key) ==
    [op |-> "issue_update", issue_key |-> parent_key,
     customfield_11501 |-> created_key, parent |-> parent_key]

\* jira.issue_update(created_key, {"customfield_11501": parent_key})
StoryUpdateCall(parent_key, created_key) ==
    [op |-> "issue_update", issue_key |-> created_key,
     customfield_11501 |-> parent_key, parent |-> parent_key]

\* The link step after a successful creation: one call for an Epic, one for
\* a Story, none for any other issue type.
LinkCalls(cf, parent_key, created_key) ==
    IF cf.issuetype = "Epic" THEN <<EpicLinkCall(parent_key, created_key)>>
    ELSE IF cf.issuetype = "Story" THEN <<StoryUpdateCall(parent_key, created_key)>>
    ELSE <<>>

\* (faulty form: continue with the next parent)
AfterCreateError_Continue == "loop"

\* except-branch of issue_create: return, which leaves _fetch_SAFe.
AfterCreateError == "returned"

\* (faulty form: the link error ends the run)
AfterLinkError_Return == "returned"

\* except-branch of the link step: the error is logged and the loop goes on.
AfterLinkError == "loop"

\* --------------------------------------------------------------- loop body
\* One iteration of the for loop of variant v over the next parent, when the
\* repository answers issue_create with create_ok and the link call with
\* link_ok.  The result holds the new value of every per-variant variable.
LoopBody(v, create_ok, link_ok) ==
    LET value == values[v][idx[v] + 1]
        cf == Resolve(create_fields[v], prefix[v], value)
        new_key == CreatedKey(created[v] + 1)
        links == LinkCalls(cf, value.key, new_key)
        entry(r, l) == [key |-> value.key, fields |-> cf, result |-> r, link |-> l,
                        created_key |-> IF r = "created" THEN new_key ELSE <<>>]
    IN IF AlreadyLinked(v, value, cf.summary)
       THEN [pc |-> "loop", create_fields |-> cf, calls |-> calls[v],
             console |-> Append(console[v], entry("skipped", "none")),
             created |-> created[v]]
       ELSE IF ~create_ok
       THEN [pc |-> AfterCreateError, create_fields |-> cf,
             calls |-> Append(calls[v], CreateCall(cf, value.key)),
             console |-> Append(console[v], entry("create_error", "none")),
             created |-> created[v]]
       ELSE [pc |-> IF links # <<>> /\ ~link_ok THEN AfterLinkError ELSE "loop",
             create_fields |-> cf,
             calls |-> Append(calls[v], CreateCall(cf, value.key)) \o links,
             console |-> Append(console[v],
                           entry("created", IF links = <<>> THEN "none"
                                            ELSE IF link_ok THEN "ok" ELSE "error")),
             created |-> created[v] + 1]

Looping(v) == pc[v] = "loop" /\ idx[v] < Len(values[v])

\* ----------------------------------------------------------------- actions
\* jira.jql succeeds: values, self.issues and prefix are set up.
Fetch ==
    /\ \E v \in Variants : pc[v] = "start"
    /\ pc' = [v \in Variants |-> "loop"]
    /\ values' = snapshot
    /\ issues' = [v \in Variants |-> issues[v] \o snapshot[v]]
    /\ idx' = [v \in Variants |-> 0]
    /\ prefix' = [v \in Variants |-> create_fields[v].summary]
    /\ UNCHANGED <<snapshot, fields_file, suffix, run, create_fields, calls,
                   console, created, first_run>>

\* jira.jql raises ValueError: the error is logged and the script exits.
FetchError ==
    /\ \E v \in Variants : pc[v] = "start"
    /\ pc' = [v \in Variants |-> "exited"]
    /\ UNCHANGED <<snapshot, fields_file, suffix, run, values, idx, prefix,
                   create_fields, issues, calls, console, created, first_run>>

\* One pass through the loop body, by every variant that is still looping.
Iterate ==
    /\ \E v \in Variants : Looping(v)
    /\ \E create_ok, link_ok \in BOOLEAN :
         LET r == [v \in Variants |-> LoopBody(v, create_ok, link_ok)] IN
         /\ pc' = [v \in Variants |-> IF Looping(v) THEN r[v].pc ELSE pc[v]]
         /\ idx' = [v \in Variants |-> IF Looping(v) THEN idx[v] + 1 ELSE idx[v]]
         /\ create_fields' = [v \in Variants |->
                                IF Looping(v) THEN r[v].create_fields ELSE create_fields[v]]
         /\ calls' = [v \in Variants |-> IF Looping(v) THEN r[v].calls ELSE calls[v]]
         /\ console' = [v \in Variants |-> IF Looping(v) THEN r[v].console ELSE console[v]]
         /\ created' = [v \in Variants |-> IF Looping(v) THEN r[v].created ELSE created[v]]
    /\ UNCHANGED <<snapshot, fields_file, suffix, run, values, prefix, issues, first_run>>

\* The for loop runs out of parents and _fetch_SAFe returns normally.
LoopEnd ==
    /\ \E v \in Variants : pc[v] = "loop" /\ idx[v] = Len(values[v])
    /\ pc' = [v \in Variants |->
                IF pc[v] = "loop" /\ idx[v] = Len(values[v]) THEN "done" ELSE pc[v]]
    /\ UNCHANGED <<snapshot, fields_file, suffix, run, values, idx, prefix,
                   create_fields, issues, calls, console, created, first_run>>

\* The snapshot of a second run: the same parents, each parent for which a
\* child was created carrying one more link, with that child's summary.
Augment(q, con) ==
    [j \in DOMAIN q |->
        IF j <= Len(con) /\ con[j].result = "created"
        THEN [q[j] EXCEPT !.issuelinks = Append(@, Link_In(con[j].fields.summary))]
        ELSE q[j]]

\* The scripts are started again: main() reloads the fields file and builds
\* a new ReportGenerator; the repository keeps what it has created.
Rerun ==
    /\ run = 1
    /\ \A v \in Variants : pc[v] \in {"done", "returned"}
    /\ run' = 2
    /\ snapshot' = [v \in Variants |-> Augment(snapshot[v], console[v])]
    /\ first_run' = console
    /\ pc' = [v \in Variants |-> "start"]
    /\ values' = [v \in Variants |-> <<>>]
    /\ idx' = [v \in Variants |-> 0]
    /\ prefix' = [v \in Variants |-> <<>>]
    /\ create_fields' = [v \in Variants |-> fields_file]
    /\ issues' = [v \in Variants |-> <<>>]
    /\ calls' = [v \in Variants |-> <<>>]
    /\ console' = [v \in Variants |-> <<>>]
    /\ UNCHANGED <<fields_file, suffix, created>>

Next == Fetch \/ FetchError \/ Iterate \/ LoopEnd \/ Rerun

Spec == Init /\ [][Next]_vars

TypeOK ==
    /\ run \in 1..2
    /\ \A v \in Variants :
         /\ pc[v] \in {"start", "loop", "done", "returned", "exited"}
         /\ idx[v] \in 0..Len(values[v])
         /\ Len(console[v]) = idx[v]

\* ============================================================== properties
\* Calls the repository of variant v received while parent key k was handled.
CallsFor(v, k) == SelectSeq(calls[v], LAMBDA c : c.parent = k)
CreateCallsFor(v, k) == SelectSeq(calls[v], LAMBDA c : c.parent = k /\ c.op = "issue_create")
Processed(v) == 1..Len(console[v])
Results(v) == [j \in Processed(v) |-> console[v][j].result]

\* The summary a link entry carries: that of inwardIssue or, failing that,
\* of outwardIssue; an entry with neither carries none.
Carries(link, s) ==
    IF "inwardIssue" \in DOMAIN link THEN link.inwardIssue = s
    ELSE "outwardIssue" \in DOMAIN link /\ link.outwardIssue = s
HasMatchingLink(value, s) ==
    \E l \in 1..Len(value.issuelinks) : Carries(value.issuelinks[l], s)

\* C1: a parent with a link whose carried summary equals the resolved child
\* summary is skipped: no repository call is issued for it, and the loop
\* goes on with the next parent.
C1_DuplicateSkipped ==
    \A v \in Variants : \A j \in Processed(v) :
        HasMatchingLink(values[v][j], console[v][j].fields.summary)
        => /\ console[v][j].result = "skipped"
           /\ CallsFor(v, console[v][j].key) = <<>>
           /\ j = Len(console[v]) => pc[v] \in {"loop", "done"}

C1_Witness ==
    \E v \in Variants : \E j \in Processed(v) :
        /\ HasMatchingLink(values[v][j], console[v][j].fields.summary)
        /\ console[v][j].result = "skipped"
        /\ j < Len(console[v])
        /\ console[v][j + 1].result = "created"

\* C2: when no issue_create fails, every parent without a link carrying its
\* resolved child summary gets exactly one issue_create call and the
\* outcome Created.
C2_CreatedWhenNoMatch ==
    \A v \in Variants :
        (\A j \in Processed(v) : console[v][j].result # "create_error")
        => \A j \in Processed(v) :
              ~HasMatchingLink(values[v][j], console[v][j].fields.summary)
              => /\ console[v][j].result = "created"
                 /\ Len(CreateCallsFor(v, console[v][j].key)) = 1

\* C3: a failing issue_create ends the run: the failing parent gets no link
\* or update call, no later parent gets any call, and with three parents of
\* which the second fails the outcomes are Created, FailedCreate and nothing.
C3_CreateFailureAborts ==
    \A v \in Variants : \A j \in Processed(v) :
        console[v][j].result = "create_error"
        => /\ pc[v] = "returned"
           /\ j = Len(console[v])
           /\ CallsFor(v, console[v][j].key)
                = <<CreateCall(console[v][j].fields, console[v][j].key)>>
           /\ \A k \in (j + 1)..Len(values[v]) : CallsFor(v, values[v][k].key) = <<>>
           /\ (Len(values[v]) = 3 /\ j = 2 /\ console[v][1].result = "created")
                => Results(v) = <<"created", "create_error">>

C3_Witness ==
    \E v \in Variants :
        /\ Len(values[v]) = 3
        /\ pc[v] = "returned"
        /\ Results(v) = <<"created", "create_error">>

\* C4: a failing link step is not fatal: the child stays created, no call
\* other than the creation and the link attempt is issued for the parent,
\* and the later parents are processed up to the end of the batch or up to
\* a failing creation.
C4_LinkFailureNotFatal ==
    \A v \in Variants : \A j \in Processed(v) :
        console[v][j].link = "error"
        => /\ console[v][j].result = "created"
           /\ Len(CallsFor(v, console[v][j].key)) = 2
           /\ CallsFor(v, console[v][j].key)[1].op = "issue_create"
           /\ CallsFor(v, console[v][j].key)[2].op \in {"create_issue_link", "issue_update"}
           /\ j = Len(console[v]) => pc[v] \in {"loop", "done"}
           /\ pc[v] \in {"done", "returned"}
                => \A k \in (j + 1)..Len(values[v]) :
                       \/ k <= Len(console[v])
                       \/ \E m \in (j + 1)..(k - 1) :
                              m <= Len(console[v]) /\ console[v][m].result = "create_error"

C4_Witness ==
    \E v \in Variants : \E j \in Processed(v) :
        /\ console[v][j].link = "error"
        /\ j < Len(console[v])
        /\ console[v][j + 1].result = "created"
        /\ pc[v] = "done"

\* C5: after a successful creation of an Epic exactly one create_issue_link
\* call follows, of type "10502", with the created Epic as inwardIssue and
\* the parent as outwardIssue, and no issue_update call.
C5_EpicLink ==
    \A v \in Variants : \A j \in Processed(v) :
        (console[v][j].result = "created" /\ console[v][j].fields.issuetype = "Epic")
        => LET cs == CallsFor(v, console[v][j].key) IN
           /\ Len(cs) = 2
           /\ cs[1].op = "issue_create"
           /\ cs[2].op = "create_issue_link"
           /\ cs[2].type = "10502"
           /\ cs[2].inwardIssue = console[v][j].created_key
           /\ cs[2].outwardIssue = values[v][j].key

C5_Witness ==
    \E v \in Variants : \E j \in Processed(v) :
        /\ console[v][j].result = "created"
        /\ console[v][j].fields.issuetype = "Epic"
        /\ console[v][j].link = "ok"
        /\ console[v][j].created_key # values[v][j].key

\* C6: after a successful creation of a Story exactly one issue_update call
\* follows, on the created Story, setting customfield_11501 to the parent's
\* key, and no create_issue_link call.
C6_StoryLink ==
    \A v \in Variants : \A j \in Processed(v) :
        (console[v][j].result = "created" /\ console[v][j].fields.issuetype = "Story")
        => LET cs == CallsFor(v, console[v][j].key) IN
           /\ Len(cs) = 2
           /\ cs[1].op = "issue_create"
           /\ cs[2].op = "issue_update"
           /\ cs[2].issue_key = console[v][j].created_key
           /\ cs[2].customfield_11501 = values[v][j].key

C6_Witness ==
    \E v \in Variants : \E j \in Processed(v) :
        /\ console[v][j].result = "created"
        /\ console[v][j].fields.issuetype = "Story"
        /\ console[v][j].link = "ok"
        /\ console[v][j].created_key # values[v][j].key

\* C7: in a second run on the snapshot augmented with the first run's
\* children, every parent for which the first run created a child is
\* skipped and gets no issue_create call.
C7_Idempotent ==
    run = 2 =>
        \A v \in Variants : \A j \in 1..Len(first_run[v]) :
            first_run[v][j].result = "created"
            => /\ CreateCallsFor(v, first_run[v][j].key) = <<>>
               /\ j <= Len(console[v]) => console[v][j].result = "skipped"

C7_Witness ==
    /\ run = 2
    /\ \E v \in Variants : \E j \in 1..Len(first_run[v]) :
          /\ first_run[v][j].result = "created"
          /\ j <= Len(console[v])
          /\ console[v][j].result = "skipped"
          /\ pc[v] = "done"

\* The summary the specification expects for "ST: SIT - Feature A (legacy)"
\* under the base "SIT: ": one blank after the colon.
S_ChildA_OneBlank == S_Prefix \o <<"F","e","a","t","u","r","e"," ","A"," ">>

\* C8 as stated: with suffix mode on, parent summary
\* "ST: SIT - Feature A (legacy)" and base "SIT: " resolve to
\* "SIT: Feature A ".
C8_AsStated ==
    \A v \in Variants : \A j \in Processed(v) :
        (suffix /\ fields_file.summary = S_Prefix /\ values[v][j].summary = S_FeatureA)
        => console[v][j].fields.summary = S_ChildA_OneBlank

\* C8 (amended): with suffix mode on, parent summary
\* "ST: SIT - Feature A (legacy)" and base "SIT: " resolve to
\* "SIT:  Feature A " (two blanks after the colon: the base's own and the one
\* that followed the marker), in the printed dict and in the submitted one.
C8_SuffixDerivation ==
    \A v \in Variants : \A j \in Processed(v) :
        (suffix /\ fields_file.summary = S_Prefix /\ values[v][j].summary = S_FeatureA)
        => /\ console[v][j].fields.summary = S_ChildA
           /\ \A n \in 1..Len(CreateCallsFor(v, console[v][j].key)) :
                  CreateCallsFor(v, console[v][j].key)[n].fields.summary = S_ChildA

C8_Witness ==
    \E v \in Variants : \E j \in Processed(v) :
        /\ suffix
        /\ fields_file.summary = S_Prefix
        /\ values[v][j].summary = S_FeatureA
        /\ console[v][j].result = "created"
        /\ console[v][j].fields.summary = S_ChildA

\* C9: with suffix mode on, what is printed and what is submitted for a
\* parent is the fields file's summary followed by that parent's own
\* suffix, and for an Epic the Epic Name is the same string.
C9_NoCompounding ==
    suffix =>
        \A v \in Variants : \A j \in Processed(v) :
            LET expected == fields_file.summary \o SuffixStr(values[v][j].summary)
                cs == CreateCallsFor(v, console[v][j].key)
            IN /\ console[v][j].fields.summary = expected
               /\ \A n \in 1..Len(cs) :
                      /\ cs[n].fields.summary = expected
                      /\ cs[n].fields.issuetype = "Epic"
                           => cs[n].fields.customfield_11502 = expected

C9_Witness ==
    /\ suffix
    /\ fields_file.issuetype = "Epic"
    /\ \E v \in Variants :
          /\ Len(console[v]) = 3
          /\ SuffixStr(values[v][1].summary) # <<>>
          /\ console[v][1].result = "created"
          /\ console[v][2].result = "skipped"
          /\ console[v][3].result = "created"

\* C10: the two variants issue the same calls with the same arguments.
C10_VariantsEquivalent ==
    calls["CreateSIT"] = calls["jiraSIT"]

====
